---- MODULE Spec2Model ----
(***************************************************************************)
(* A model of the geniust text utilities (src/geniust/utils.py), of the    *)
(* preferences store (src/geniust/db.py) and of the key the archive        *)
(* producer reads (src/geniust/zip_album.py).                              *)
(*                                                                         *)
(* A Python str is a sequence of one-character strings; None is the        *)
(* record NoneValue.  Each component has its own variables, its own        *)
(* initial states (the inputs of the call, drawn from bounded sets) and    *)
(* its own specification; the variables of the other components stay at    *)
(* their idle values.                                                      *)
(***************************************************************************)
EXTENDS Integers, Sequences, FiniteSets, TLC

VARIABLES
    \* find_matching_lyrics (utils.py:180-204)
    fm_lines, fm_lyrics, fm_i, fm_matching_lyrics, fm_result, fm_pc,
    \* remove_unsupported_tags (utils.py:106-131)
    tf_input, tf_soup, tf_supported, tf_restart, tf_i, tf_pc,
    \* remove_extra_newlines (utils.py:134-147)
    rn_s, rn_out, rn_pc,
    \* format_language (utils.py:219-266)
    fl_lyrics, fl_lyrics_language, fl_once, fl_twice, fl_pc,
    \* get_song_metadata (utils.py:392-421)
    gm_song, gm_result, gm_pc,
    \* format_annotations (utils.py:269-334)
    fa_lyrics, fa_annotations, fa_include_annotations, fa_format_type,
    fa_soup, fa_k, fa_used, fa_annotation, fa_current, fa_pc,
    \* Database.user (db.py:22-44)
    db_table, db_user_data, db_pc, db_chat_id, db_res, db_error, db_calls

fmVars == <<fm_lines, fm_lyrics, fm_i, fm_matching_lyrics, fm_result, fm_pc>>

tfVars == <<tf_input, tf_soup, tf_supported, tf_restart, tf_i, tf_pc>>

rnVars == <<rn_s, rn_out, rn_pc>>

flVars == <<fl_lyrics, fl_lyrics_language, fl_once, fl_twice, fl_pc>>

gmVars == <<gm_song, gm_result, gm_pc>>

faVars == <<fa_lyrics, fa_annotations, fa_include_annotations, fa_format_type,
           fa_soup, fa_k, fa_used, fa_annotation, fa_current, fa_pc>>

dbVars == <<db_table, db_user_data, db_pc, db_chat_id, db_res, db_error, db_calls>>

vars == <<fmVars, tfVars, rnVars, flVars, gmVars, faVars, dbVars>>

\* The variables of the components other than the one named.
xFm == <<tfVars, rnVars, flVars, gmVars, faVars, dbVars>>

xTf == <<fmVars, rnVars, flVars, gmVars, faVars, dbVars>>

xRn == <<fmVars, tfVars, flVars, gmVars, faVars, dbVars>>

xFl == <<fmVars, tfVars, rnVars, gmVars, faVars, dbVars>>

xGm == <<fmVars, tfVars, rnVars, flVars, faVars, dbVars>>

xFa == <<fmVars, tfVars, rnVars, flVars, gmVars, dbVars>>

xDb == <<fmVars, tfVars, rnVars, flVars, gmVars, faVars>>

----------------------------------------------------------------------------
(* Python values and str methods                                           *)

\* Python's None, and a returned str, as values that can be compared.
NoneValue == [isNone |-> TRUE, val |-> <<>>]

StrValue(s) == [isNone |-> FALSE, val |-> s]

Min2(a, b) == IF a <= b THEN a ELSE b

\* The index of the first occurrence of character c in s, 0 when there is none.
RECURSIVE IndexOf(_, _)
IndexOf(s, c) ==
    IF s = <<>> THEN 0
    ELSE IF Head(s) = c THEN 1
    ELSE LET r == IndexOf(Tail(s), c) IN IF r = 0 THEN 0 ELSE r + 1

\* str.split(c) for a one-character separator: "" splits into [""].
RECURSIVE Split(_, _)
Split(s, c) ==
    LET i == IndexOf(s, c) IN
    IF i = 0 THEN <<s>>
    ELSE <<SubSeq(s, 1, i - 1)>> \o Split(SubSeq(s, i + 1, Len(s)), c)

\* c.join(parts)
RECURSIVE Join(_, _)
Join(parts, c) ==
    IF parts = <<>> THEN <<>>
    ELSE IF Len(parts) = 1 THEN parts[1]
    ELSE parts[1] \o <<c>> \o Join(Tail(parts), c)

\* sub in s (Python's substring test)
IsSubstring(sub, s) ==
    \E i \in 1..(Len(s) - Len(sub) + 1) : SubSeq(s, i, i + Len(sub) - 1) = sub

\* s.startswith(p)
StartsWith(s, p) == Len(p) <= Len(s) /\ SubSeq(s, 1, Len(p)) = p

Whitespace == {" ", "\n"}

\* str.strip()
RECURSIVE LStrip(_)
LStrip(s) == IF s # <<>> /\ Head(s) \in Whitespace THEN LStrip(Tail(s)) ELSE s

RECURSIVE RStrip(_)
RStrip(s) ==
    IF s # <<>> /\ s[Len(s)] \in Whitespace THEN RStrip(SubSeq(s, 1, Len(s) - 1)) ELSE s

Strip(s) == RStrip(LStrip(s))

\* The sequences over S of length at most n.
SeqsUpTo(S, n) == UNION {[1..k -> S] : k \in 0..n}

----------------------------------------------------------------------------
(* Snippet Matcher: find_matching_lyrics                                   *)

MaxLyricsLines == 3
MaxCandidates == 2

\* The lines the inputs are built from: an exact pair, a near pair
\* ("ab"/"abc", ratio 0.8), a substring-only match ("b" in "ab") and a line
\* that matches only once clean_str has dropped case and punctuation.
SnippetLines == { <<"a", "b">>, <<"a", "b", "c">>, <<"b">>, <<"A", "!">> }

Punctuation == {"!"}

Lower(c) == IF c = "A" THEN "a" ELSE c

\* lyricsgenius.utils.clean_str: drop punctuation, strip, lower-case.
RECURSIVE DropPunctuation(_)
DropPunctuation(s) ==
    IF s = <<>> THEN <<>>
    ELSE IF Head(s) \in Punctuation THEN DropPunctuation(Tail(s))
    ELSE <<Head(s)>> \o DropPunctuation(Tail(s))

clean_str(s) ==
    LET t == Strip(DropPunctuation(s)) IN [i \in 1..Len(t) |-> Lower(t[i])]

\* The edit distance Levenshtein.ratio is built on: an insertion or a
\* deletion costs 1, a substitution 2.
RECURSIVE EditDistance(_, _)
EditDistance(a, b) ==
    IF a = <<>> THEN Len(b)
    ELSE IF b = <<>> THEN Len(a)
    ELSE IF Head(a) = Head(b) THEN EditDistance(Tail(a), Tail(b))
    ELSE Min2(1 + EditDistance(Tail(a), b),
              Min2(1 + EditDistance(a, Tail(b)),
                   2 + EditDistance(Tail(a), Tail(b))))

\* Levenshtein.ratio(a, b) > 0.75, with ratio = (lensum - dist) / lensum
\* and ratio("", "") = 1.0; in integers, 4 * (lensum - dist) > 3 * lensum.
RatioAbove(a, b) ==
    LET lensum == Len(a) + Len(b) IN
    IF lensum = 0 THEN TRUE
    ELSE 4 * (lensum - EditDistance(a, b)) > 3 * lensum

\* utils.py:197-199, the test of one candidate against one full-lyrics line.
LineMatches(found_line, line) ==
    \/ RatioAbove(found_line, line)
    \/ IsSubstring(clean_str(found_line), clean_str(line))

\* utils.py:192-201, the inner loop: the line is appended when some candidate
\* matches it (the break leaves the loop at the first one).
AnyCandidateMatches(lines, line) ==
    \E k \in 1..Len(lines) : LineMatches(lines[k], line)

\* utils.py:204 as a mutant would have it: a partial match is discarded.
ReturnValueFullOnly(matching, lines) ==
    IF matching # <<>> /\ Len(matching) = Len(lines)
    THEN StrValue(Join(matching, "\n"))
    ELSE NoneValue

\* utils.py:204: "\n".join(matching_lyrics) if matching_lyrics else None
ReturnValue(matching, lines) ==
    IF matching # <<>> THEN StrValue(Join(matching, "\n")) ELSE NoneValue

LyricsLines == Split(fm_lyrics, "\n")

InitMatchVars ==
    /\ fm_lines \in SeqsUpTo(SnippetLines, MaxCandidates)
    /\ \E ls \in SeqsUpTo(SnippetLines, MaxLyricsLines) :
          /\ ls # <<>>
          /\ fm_lyrics = Join(ls, "\n")
    /\ fm_i = 1
    /\ fm_matching_lyrics = <<>>
    /\ fm_result = NoneValue
    /\ fm_pc = "scan"

IdleMatch ==
    /\ fm_lines = <<>>
    /\ fm_lyrics = <<>>
    /\ fm_i = 0
    /\ fm_matching_lyrics = <<>>
    /\ fm_result = NoneValue
    /\ fm_pc = "idle"

\* The outer loop as a mutant would have it: without the test of
\* utils.py:202-203 the scan goes on to the last line.
FmScanLineToTheEnd ==
    /\ fm_pc = "scan"
    /\ fm_i <= Len(LyricsLines)
    /\ LET line == LyricsLines[fm_i]
           matching == IF AnyCandidateMatches(fm_lines, line)
                       THEN Append(fm_matching_lyrics, line)
                       ELSE fm_matching_lyrics
       IN /\ fm_matching_lyrics' = matching
          /\ IF fm_i = Len(LyricsLines)
             THEN fm_pc' = "return" /\ fm_i' = fm_i
             ELSE fm_pc' = "scan" /\ fm_i' = fm_i + 1
    /\ UNCHANGED <<xFm, fm_lines, fm_lyrics, fm_result>>

\* One iteration of the outer loop (utils.py:191-203): the line is tested
\* against the candidates, and the scan stops when the counts are equal or
\* the lines are used up.
FmScanLine ==
    /\ fm_pc = "scan"
    /\ fm_i <= Len(LyricsLines)
    /\ LET line == LyricsLines[fm_i]
           matching == IF AnyCandidateMatches(fm_lines, line)
                       THEN Append(fm_matching_lyrics, line)
                       ELSE fm_matching_lyrics
       IN /\ fm_matching_lyrics' = matching
          /\ IF Len(matching) = Len(fm_lines) \/ fm_i = Len(LyricsLines)
             THEN fm_pc' = "return" /\ fm_i' = fm_i
             ELSE fm_pc' = "scan" /\ fm_i' = fm_i + 1
    /\ UNCHANGED <<xFm, fm_lines, fm_lyrics, fm_result>>

\* utils.py:204
FmReturn ==
    /\ fm_pc = "return"
    /\ fm_result' = ReturnValue(fm_matching_lyrics, fm_lines)
    /\ fm_pc' = "done"
    /\ UNCHANGED <<xFm, fm_lines, fm_lyrics, fm_i, fm_matching_lyrics>>

NextMatch == FmScanLine \/ FmReturn


----------------------------------------------------------------------------
(* The document tree (BeautifulSoup)                                       *)

\* A node is an element (a Tag: name, attrs, children) or a text run (a
\* NavigableString: its name is None).  attrs is a set of <<name, value>>.
\* A soup, like the children of an element, is a sequence of nodes.
TextNode(t) == [name |-> "None", attrs |-> {}, children |-> <<>>, text |-> t]

Element(name, attrs, children) ==
    [name |-> name, attrs |-> attrs, children |-> children, text |-> <<>>]

IsTag(node) == node.name # "None"

\* The soups of exactly n nodes whose text runs are in leaves and whose
\* elements have a head (name and attrs, no children yet) in heads.
RECURSIVE Forests(_, _, _)
RECURSIVE Trees(_, _, _)
Forests(n, leaves, heads) ==
    IF n = 0 THEN {<<>>}
    ELSE UNION { { <<t>> \o f : t \in Trees(k, leaves, heads),
                                f \in Forests(n - k, leaves, heads) }
                 : k \in 1..n }

Trees(k, leaves, heads) ==
    (IF k = 1 THEN leaves ELSE {})
    \cup { Element(h.name, h.attrs, f) :
             h \in heads, f \in Forests(k - 1, leaves, heads) }

ForestsUpTo(n, leaves, heads) == UNION { Forests(k, leaves, heads) : k \in 0..n }

\* Tag.text / get_text(): the text runs of the nodes, joined in document order.
RECURSIVE GetText(_)
GetText(forest) ==
    IF forest = <<>> THEN <<>>
    ELSE (IF IsTag(Head(forest)) THEN GetText(Head(forest).children)
          ELSE Head(forest).text)
         \o GetText(Tail(forest))

\* The number of elements, at any depth, whose name is in names.
RECURSIVE CountNamed(_, _)
CountNamed(forest, names) ==
    IF forest = <<>> THEN 0
    ELSE (IF IsTag(Head(forest)) /\ Head(forest).name \in names THEN 1 ELSE 0)
         + CountNamed(Head(forest).children, names)
         + CountNamed(Tail(forest), names)

\* The number of elements, at any depth, whose name is not in names.
RECURSIVE CountNotNamed(_, _)
CountNotNamed(forest, names) ==
    IF forest = <<>> THEN 0
    ELSE (IF IsTag(Head(forest)) /\ Head(forest).name \notin names THEN 1 ELSE 0)
         + CountNotNamed(Head(forest).children, names)
         + CountNotNamed(Tail(forest), names)

\* The soup with the node at index i replaced by the nodes of repl.
Splice(forest, i, repl) ==
    SubSeq(forest, 1, i - 1) \o repl \o SubSeq(forest, i + 1, Len(forest))

----------------------------------------------------------------------------
(* Tag Filter: remove_unsupported_tags                                     *)

MaxSoupNodes == 3

TagNames == {"b", "div"}

SoupTexts == { TextNode(<<"x">>), TextNode(<<"y">>) }

SoupHeads == { [name |-> n, attrs |-> {}] : n \in TagNames }

\* utils.py:124
Unsupported(tag, supported) == IsTag(tag) /\ tag.name \notin supported

\* utils.py:125-127 as a mutant would have it: the children are moved out
\* and the emptied tag is left in the soup.
RemoveTagLeavesShell(soup, i) ==
    IF GetText(<<soup[i]>>) # <<>>
    THEN Splice(soup, i, soup[i].children \o <<Element(soup[i].name, {}, <<>>)>>)
    ELSE Splice(soup, i, <<>>)

\* utils.py:125-127: a tag with text is unwrapped (its children take its
\* place) and the emptied tag destroyed; a tag with no text is destroyed
\* with everything in it.
RemoveTag(soup, i) ==
    IF GetText(<<soup[i]>>) # <<>>
    THEN Splice(soup, i, soup[i].children)
    ELSE Splice(soup, i, <<>>)

InitTagsVars ==
    /\ tf_input \in ForestsUpTo(MaxSoupNodes, SoupTexts, SoupHeads)
    /\ tf_soup = tf_input
    /\ tf_supported \in SUBSET TagNames
    /\ tf_restart = TRUE
    /\ tf_i = 0
    /\ tf_pc = "while"

IdleTags ==
    /\ tf_input = <<>>
    /\ tf_soup = <<>>
    /\ tf_supported = {}
    /\ tf_restart = FALSE
    /\ tf_i = 0
    /\ tf_pc = "idle"

\* utils.py:120-122: the while test passes and a new scan of the soup's
\* children starts.
TfStartScan ==
    /\ tf_pc = "while"
    /\ tf_restart
    /\ tf_restart' = FALSE
    /\ tf_i' = 1
    /\ tf_pc' = "for"
    /\ UNCHANGED <<xTf, tf_input, tf_soup, tf_supported>>

\* utils.py:120, 131: the while test fails and the soup is returned.
TfReturn ==
    /\ tf_pc = "while"
    /\ ~tf_restart
    /\ tf_pc' = "done"
    /\ UNCHANGED <<xTf, tf_input, tf_soup, tf_supported, tf_restart, tf_i>>

\* utils.py:122-124: the child is a text run or a supported tag.
TfKeep ==
    /\ tf_pc = "for"
    /\ tf_i <= Len(tf_soup)
    /\ ~Unsupported(tf_soup[tf_i], tf_supported)
    /\ tf_i' = tf_i + 1
    /\ UNCHANGED <<xTf, tf_input, tf_soup, tf_supported, tf_restart, tf_pc>>

\* utils.py:124-129: the child is an unsupported tag; it is removed and the
\* scan restarts.
TfRemove ==
    /\ tf_pc = "for"
    /\ tf_i <= Len(tf_soup)
    /\ Unsupported(tf_soup[tf_i], tf_supported)
    /\ tf_soup' = RemoveTag(tf_soup, tf_i)
    /\ tf_restart' = TRUE
    /\ tf_pc' = "while"
    /\ UNCHANGED <<xTf, tf_input, tf_supported, tf_i>>

\* utils.py:122: the children are used up.
TfScanEnd ==
    /\ tf_pc = "for"
    /\ tf_i > Len(tf_soup)
    /\ tf_pc' = "while"
    /\ UNCHANGED <<xTf, tf_input, tf_soup, tf_supported, tf_restart, tf_i>>

NextTags == TfStartScan \/ TfReturn \/ TfKeep \/ TfRemove \/ TfScanEnd

----------------------------------------------------------------------------
(* Layout Normalizer: newline_pattern and remove_extra_newlines            *)

MaxTextLen == 5

\* The characters of the texts.  A break tag (<br>, <br/>, <br >: what
\* <br\s*[/]*> matches) is one symbol; "a" stands for an ASCII letter and
\* NonAscii for a character outside \x00-\x7F (a Persian letter).
NL == "\n"
BR == "<br>"
LB == "["
RB == "]"
NonAscii == "U+0633"

\* (\n|<br\s*[/]*>)
IsMarker(c) == c \in {NL, BR}

\* The number of consecutive markers of s from index i on.
RECURSIVE MarkerRun(_, _)
MarkerRun(s, i) ==
    IF i <= Len(s) /\ IsMarker(s[i]) THEN 1 + MarkerRun(s, i + 1) ELSE 0

\* (?!\[) after k markers from i
NotBeforeBracket(s, i, k) == i + k > Len(s) \/ s[i + k] # LB

\* newline_pattern as a mutant would have it, the quantifier giving nothing
\* back: the whole run, or no match when a "[" follows it.
NewlineMatchAllOrNothing(s, i) ==
    LET run == MarkerRun(s, i) IN
    IF run >= 2 /\ NotBeforeBracket(s, i, run) THEN run ELSE 0

\* utils.py:37, the length of the match of newline_pattern at index i (0:
\* no match): {2,} takes the whole run and gives markers back, one at a
\* time and never below two, until the lookahead (?!\[) holds.
NewlineMatch(s, i) ==
    LET run == MarkerRun(s, i)
        ok == { k \in 2..run : NotBeforeBracket(s, i, k) }
    IN IF ok = {} THEN 0 ELSE CHOOSE k \in ok : \A j \in ok : j <= k

\* newline_pattern.sub("\n", s), scanning from index i: a match is replaced
\* and the scan goes on after it, another character is copied.
RECURSIVE NewlineSub(_, _)
NewlineSub(s, i) ==
    IF i > Len(s) THEN <<>>
    ELSE LET k == NewlineMatch(s, i) IN
         IF k > 0 THEN <<NL>> \o NewlineSub(s, i + k)
         ELSE <<s[i]>> \o NewlineSub(s, i + 1)

\* utils.py:147
remove_extra_newlines(s) == NewlineSub(s, 1)

NewlineAlphabet == {"a", NL, BR, LB}

InitNewlinesVars ==
    /\ rn_s \in SeqsUpTo(NewlineAlphabet, MaxTextLen)
    /\ rn_out = <<>>
    /\ rn_pc = "call"

IdleNewlines ==
    /\ rn_s = <<>>
    /\ rn_out = <<>>
    /\ rn_pc = "idle"

RnCall ==
    /\ rn_pc = "call"
    /\ rn_out' = remove_extra_newlines(rn_s)
    /\ rn_pc' = "done"
    /\ UNCHANGED <<xRn, rn_s>>

NextNewlines == RnCall

----------------------------------------------------------------------------
(* Language Splitter: remove_non_english, remove_english, format_language  *)

LangAlphabet == {"a", NonAscii, NL, LB, RB, BR}

Languages == {"English", "Non-English", "English + Non-English"}

\* The index of the end of the line that holds index i (the last index
\* before the next newline).
RECURSIVE LineEnd(_, _)
LineEnd(s, i) ==
    IF i >= Len(s) \/ s[i + 1] = NL THEN i ELSE LineEnd(s, i + 1)

\* \[[^\]\n]+\] at index i: the length of the header, 0 when there is none.
RECURSIVE HeaderClose(_, _)
HeaderClose(s, j) ==
    IF j > Len(s) \/ s[j] = NL THEN 0
    ELSE IF s[j] = RB THEN j
    ELSE HeaderClose(s, j + 1)

HeaderMatch(s, i) ==
    IF s[i] # LB THEN 0
    ELSE LET j == HeaderClose(s, i + 1) IN
         IF j > i + 1 THEN j - i + 1 ELSE 0

\* <.*?> at index i: of these characters only a break tag is a tag.
TagMatch(s, i) == IF s[i] = BR THEN 1 ELSE 0

\* utils.py:16-33, group 1 of both patterns at index i: a header or a tag.
\* The other alternatives (the escapes written backslash-n and backslash-u200c,
\* the spans between !--! and !__!) need characters that LangAlphabet lacks.
KeptMatch(s, i) ==
    IF HeaderMatch(s, i) > 0 THEN HeaderMatch(s, i) ELSE TagMatch(s, i)

\* [^\x00-\x7F]
IsNonAscii(c) == c = NonAscii

\* [a-zA-Z]: a letter, or the letters of a break tag's name.
HasLetter(c) == c \in {"a", BR}

\* utils.py:21-23: .*[^\x00-\x7F].* at index i takes the rest of the line
\* when a non-ASCII character is in it.
NonEnglishMatch(s, i) ==
    IF s[i] # NL /\ \E j \in i..LineEnd(s, i) : IsNonAscii(s[j])
    THEN LineEnd(s, i) - i + 1 ELSE 0

AtLineStart(s, i) == i = 1 \/ s[i - 1] = NL

\* utils.py:32: ^.*[a-zA-Z]+.* (MULTILINE) takes the whole line, from its
\* start only, when a letter is in it.
EnglishMatch(s, i) ==
    IF AtLineStart(s, i) /\ s[i] # NL /\ \E j \in i..LineEnd(s, i) : HasLetter(s[j])
    THEN LineEnd(s, i) - i + 1 ELSE 0

\* pattern.sub("\\1", s, 0) from index i: group 1 is tried first and is put
\* back, the line fragment is dropped, another character is copied.
RECURSIVE LanguageSub(_, _, _)
LanguageSub(s, i, language) ==
    IF i > Len(s) THEN <<>>
    ELSE LET kept == KeptMatch(s, i)
             dropped == IF language = "English" THEN NonEnglishMatch(s, i)
                        ELSE EnglishMatch(s, i)
         IN IF kept > 0
            THEN SubSeq(s, i, i + kept - 1) \o LanguageSub(s, i + kept, language)
            ELSE IF dropped > 0 THEN LanguageSub(s, i + dropped, language)
            ELSE <<s[i]>> \o LanguageSub(s, i + 1, language)

\* utils.py:239-245
string_formatter(s, language) ==
    remove_extra_newlines(
        IF language \in {"English", "Non-English"} THEN LanguageSub(s, 1, language)
        ELSE s)

\* BeautifulSoup(s, "html.parser"): the break tags become elements and the
\* text between them text runs.
RECURSIVE ParseHtml(_)
ParseHtml(s) ==
    LET i == IndexOf(s, BR) IN
    IF s = <<>> THEN <<>>
    ELSE IF i = 0 THEN <<TextNode(s)>>
    ELSE (IF i = 1 THEN <<>> ELSE <<TextNode(SubSeq(s, 1, i - 1))>>)
         \o <<Element("br", {}, <<>>)>>
         \o ParseHtml(SubSeq(s, i + 1, Len(s)))

\* str(soup)
RECURSIVE Serialize(_)
Serialize(soup) ==
    IF soup = <<>> THEN <<>>
    ELSE (IF IsTag(Head(soup)) THEN <<BR>> ELSE Head(soup).text)
         \o Serialize(Tail(soup))

\* utils.py:247-260: every text run that is not blank is replaced by its
\* formatted text.
FormatStrings(soup, language) ==
    [i \in 1..Len(soup) |->
        IF ~IsTag(soup[i]) /\ Len(Strip(soup[i].text)) # 0
        THEN TextNode(string_formatter(soup[i].text, language))
        ELSE soup[i]]

InitLangVars ==
    /\ fl_lyrics \in SeqsUpTo(LangAlphabet, MaxTextLen)
    /\ fl_lyrics_language \in Languages
    /\ fl_once = <<>>
    /\ fl_twice = <<>>
    /\ fl_pc = "call"

IdleLang ==
    /\ fl_lyrics = <<>>
    /\ fl_lyrics_language = "English"
    /\ fl_once = <<>>
    /\ fl_twice = <<>>
    /\ fl_pc = "idle"

\* utils.py:261-262, format_language on a str
FlFormatStr ==
    /\ fl_pc = "call"
    /\ fl_once' = ParseHtml(string_formatter(fl_lyrics, fl_lyrics_language))
    /\ fl_pc' = "once"
    /\ UNCHANGED <<xFl, fl_lyrics, fl_lyrics_language, fl_twice>>

\* utils.py:247-260, format_language on the soup the first call returned
FlFormatSoup ==
    /\ fl_pc = "once"
    /\ fl_twice' = FormatStrings(fl_once, fl_lyrics_language)
    /\ fl_pc' = "twice"
    /\ UNCHANGED <<xFl, fl_lyrics, fl_lyrics_language, fl_once>>

NextLang == FlFormatStr \/ FlFormatSoup

----------------------------------------------------------------------------
(* Metadata Normalizer: get_song_metadata                                  *)

MaxAnnotationLen == 3

\* The index of the first occurrence of sep in s, 0 when there is none.
FindStr(s, sep) ==
    LET at == { i \in 1..(Len(s) - Len(sep) + 1) : SubSeq(s, i, i + Len(sep) - 1) = sep }
    IN IF at = {} THEN 0 ELSE CHOOSE i \in at : \A j \in at : i <= j

\* s.split(sep)
RECURSIVE SplitStr(_, _)
SplitStr(s, sep) ==
    LET i == FindStr(s, sep) IN
    IF i = 0 THEN <<s>>
    ELSE <<SubSeq(s, 1, i - 1)>> \o SplitStr(SubSeq(s, i + Len(sep), Len(s)), sep)

\* [U+0600-U+06FF]
IsPersian(c) == c = NonAscii

\* utils.py:45, TRANSLATION_PARENTHESES at index i: "(", one Persian
\* character, ")".
TranslationParenthesesMatch(s, i) ==
    /\ i + 2 <= Len(s)
    /\ s[i] = "("
    /\ IsPersian(s[i + 1])
    /\ s[i + 2] = ")"

\* TRANSLATION_PARENTHESES.sub("", s), from index i
RECURSIVE TranslationParenthesesSub(_, _)
TranslationParenthesesSub(s, i) ==
    IF i > Len(s) THEN <<>>
    ELSE IF TranslationParenthesesMatch(s, i) THEN TranslationParenthesesSub(s, i + 3)
    ELSE <<s[i]>> \o TranslationParenthesesSub(s, i + 1)

Genius == <<"G", "e", "n", "i", "u", "s">>

Ampersand == <<" ", "&", " ">>

\* n Persian characters
Persian(n) == [i \in 1..n |-> NonAscii]

\* The titles: "<artist><separator><title><annotation>".
TitleArtists == { <<"A">>, <<"A", " ", "&", " ", "B">> }

TitleSeparators == { <<" ", "-", " ">>, <<"-">> }

TitleSongs == { <<"T">>, <<"T", " ", "T">>, <<"T", "-", "T">> }

TitleAnnotations ==
    {<<>>} \cup { <<" ", "(">> \o Persian(n) \o <<")">> : n \in 0..MaxAnnotationLen }

ArtistNames ==
    { Genius, Genius \o <<" ", "T">>, <<"A">>, <<"A", " ", "&", " ", "B">> }

Songs ==
    { [title |-> a \o sep \o t \o ann,
       primary_artist |-> [name |-> name],
       featured_artists |-> featured] :
        a \in TitleArtists, sep \in TitleSeparators, t \in TitleSongs,
        ann \in TitleAnnotations, name \in ArtistNames,
        featured \in { <<>>, <<[name |-> <<"F">>]>> } }

Raised(error) == [raised |-> error, value |-> <<>>]

Returned(value) == [raised |-> "", value |-> value]

\* utils.py:404-421
get_song_metadata(song) ==
    LET primary_artists == SplitStr(song.primary_artist.name, Ampersand)
        featured_artists == [i \in 1..Len(song.featured_artists) |->
                                song.featured_artists[i].name]
        stripped == Strip(TranslationParenthesesSub(song.title, 1))
        parts == SplitStr(stripped, <<"-">>)
    IN IF StartsWith(primary_artists[1], Genius) /\ featured_artists = <<>>
       THEN IF Len(parts) # 2 THEN Raised("ValueError")
            ELSE Returned(<<Strip(parts[2]),
                            SplitStr(Strip(parts[1]), Ampersand),
                            featured_artists>>)
       ELSE Returned(<<song.title, primary_artists, featured_artists>>)

InitMetaVars ==
    /\ gm_song \in Songs
    /\ gm_result = Returned(<<>>)
    /\ gm_pc = "call"

IdleMeta ==
    /\ gm_song = [title |-> <<>>, primary_artist |-> [name |-> <<>>],
                  featured_artists |-> <<>>]
    /\ gm_result = Returned(<<>>)
    /\ gm_pc = "idle"

\* The call returns its tuple.
GmReturn ==
    /\ gm_pc = "call"
    /\ get_song_metadata(gm_song).raised = ""
    /\ gm_result' = get_song_metadata(gm_song)
    /\ gm_pc' = "returned"
    /\ UNCHANGED <<xGm, gm_song>>

\* The unpacking at utils.py:418 fails: the title does not split in two.
GmRaise ==
    /\ gm_pc = "call"
    /\ get_song_metadata(gm_song).raised # ""
    /\ gm_result' = get_song_metadata(gm_song)
    /\ gm_pc' = "raised"
    /\ UNCHANGED <<xGm, gm_song>>

NextMeta == GmReturn \/ GmRaise

----------------------------------------------------------------------------
(* Annotation Inliner: format_annotations                                  *)

MaxLyricsNodes == 3
MaxBodyNodes == 3

\* A path names a node of a soup: the index of a top-level node, then the
\* index of a child, and so on.  The empty path is no node (None).
RECURSIVE NodeAt(_, _)
NodeAt(forest, path) ==
    IF Len(path) = 1 THEN forest[path[1]]
    ELSE NodeAt(forest[path[1]].children, Tail(path))

\* The soup with the node at path replaced by the nodes of repl.
RECURSIVE ReplaceAt(_, _, _)
ReplaceAt(forest, path, repl) ==
    IF Len(path) = 1 THEN Splice(forest, path[1], repl)
    ELSE [forest EXCEPT ![path[1]] =
            Element(@.name, @.attrs, ReplaceAt(@.children, Tail(path), repl))]

\* The paths of the nodes of the soup in document order (the next_element
\* chain), from the top-level node i on; prefix is the path of the parent.
RECURSIVE Preorder(_, _, _)
Preorder(forest, prefix, i) ==
    IF i > Len(forest) THEN <<>>
    ELSE <<prefix \o <<i>>>>
         \o Preorder(forest[i].children, prefix \o <<i>>, 1)
         \o Preorder(forest, prefix, i + 1)

Descendants(forest) == Preorder(forest, <<>>, 1)

\* SelectSeq with a test on the path
RECURSIVE FilterPaths(_, _, _)
FilterPaths(paths, forest, names) ==
    IF paths = <<>> THEN <<>>
    ELSE (IF NodeAt(forest, Head(paths)).name \in names THEN <<Head(paths)>> ELSE <<>>)
         \o FilterPaths(Tail(paths), forest, names)

\* Whether a proper ancestor of the node at path is an <annotation>.
InAnnotation(forest, path) ==
    \E n \in 1..(Len(path) - 1) : NodeAt(forest, SubSeq(path, 1, n)).name = "annotation"

RECURSIVE OutsideAnnotations(_, _)
OutsideAnnotations(paths, forest) ==
    IF paths = <<>> THEN <<>>
    ELSE (IF InAnnotation(forest, Head(paths)) THEN <<>> ELSE <<Head(paths)>>)
         \o OutsideAnnotations(Tail(paths), forest)

\* utils.py:299, soup.find_all("a"): the anchors of the lyrics in document
\* order.  The list is made once, before any annotation is inserted, so an
\* anchor inside an inserted annotation is not in it: the k-th anchor of the
\* list is the k-th anchor of the soup outside the annotations.
Anchors(forest) ==
    OutsideAnnotations(FilterPaths(Descendants(forest), forest, {"a"}), forest)

\* a.attrs["href"]
Href(node) == (CHOOSE p \in node.attrs : p[1] = "href")[2]

\* The path that follows path in document order, <<>> after the last.
NextElement(forest, path) ==
    LET order == Descendants(forest)
        at == CHOOSE n \in 1..Len(order) : order[n] = path
    IN IF at = Len(order) THEN <<>> ELSE order[at + 1]

\* The next sibling of the node at path, as a one-node soup; <<>> when the
\* node is the last child.
NextSibling(forest, path) ==
    LET siblings == IF Len(path) = 1 THEN forest
                    ELSE NodeAt(forest, SubSeq(path, 1, Len(path) - 1)).children
        i == path[Len(path)]
    IN IF i < Len(siblings) THEN <<siblings[i + 1]>> ELSE <<>>

\* The parser makes one text run of text that follows text.
RECURSIVE MergeText(_)
MergeText(forest) ==
    IF Len(forest) < 2 THEN forest
    ELSE IF ~IsTag(forest[1]) /\ ~IsTag(forest[2])
    THEN MergeText(<<TextNode(forest[1].text \o forest[2].text)>> \o SubSeq(forest, 3, Len(forest)))
    ELSE <<forest[1]>> \o MergeText(Tail(forest))

\* utils.py:273, identifiers
OpenIdentifier == <<"\n", "!", "-", "-", "!", "\n">>

CloseIdentifier == <<"\n", "!", "_", "_", "!", "\n">>

\* utils.py:304-316: the parsed <annotation> block around the body, between
\* the identifiers in the zip format.
AnnotationSoup(body, format_type) ==
    <<Element("annotation", {},
        IF format_type = "zip"
        THEN MergeText(<<TextNode(OpenIdentifier)>> \o body \o <<TextNode(CloseIdentifier)>>)
        ELSE body)>>

\* utils.py:301 as a mutant would have it: no reference id counts as used.
AlreadyUsedNever(annotation_id, used) == FALSE

\* utils.py:301
AlreadyUsed(annotation_id, used) == \E n \in 1..Len(used) : used[n] = annotation_id

\* utils.py:321-324: every attribute but href is popped.
StripAttributes(node) ==
    IF IsTag(node)
    THEN Element(node.name, { p \in node.attrs : p[1] = "href" }, node.children)
    ELSE node

\* utils.py:320, the generator annotation.descendants after the loop body
\* took the node it had yielded out of the tree (decompose, unwrap): the
\* generator reads the next_element of that node, which extract() and
\* decompose() have reset, and gets None, the node at which it stops.
NextElementOfRemoved == <<>>

ReferenceIds == {"1", "2"}

Anchor(href, more) ==
    Element("a", {<<"href", href>>} \cup more, <<TextNode(<<"x">>)>>)

LyricsItems ==
    { TextNode(<<"x">>),
      Anchor("1", {}),
      Anchor("1", {<<"class", "r">>}),
      Anchor("2", {}),
      Element("i", {}, <<Anchor("1", {})>>) }

BodyTexts == { TextNode(<<"t">>) }

BodyHeads ==
    { [name |-> n, attrs |-> {}] : n \in {"div", "script", "iframe", "blockquote"} }
    \cup { [name |-> "b", attrs |-> {<<"class", "r">>}] }

SmallBodies == { <<TextNode(<<"t">>)>>, <<Element("div", {}, <<>>), TextNode(<<"t">>)>> }

\* The annotation maps: a function from some reference ids to bodies.
AnnotationMaps(bodies) ==
    UNION { [ids -> bodies] : ids \in {{}, {"1"}, {"1", "2"}} }

InitAnnotVars ==
    /\ \/ /\ fa_lyrics \in SeqsUpTo(LyricsItems, MaxLyricsNodes)
          /\ fa_annotations \in AnnotationMaps(SmallBodies)
          /\ fa_include_annotations \in BOOLEAN
       \/ /\ fa_lyrics = <<Anchor("1", {})>>
          /\ fa_annotations \in
                [{"1"} -> ForestsUpTo(MaxBodyNodes, BodyTexts, BodyHeads)]
          /\ fa_include_annotations = TRUE
    /\ fa_format_type \in {"zip", "pdf"}
    /\ fa_soup = fa_lyrics
    /\ fa_k = 1
    /\ fa_used = <<>>
    /\ fa_annotation = <<>>
    /\ fa_current = <<>>
    /\ fa_pc = "call"

IdleAnnot ==
    /\ fa_lyrics = <<>>
    /\ fa_annotations = <<>>
    /\ fa_include_annotations = FALSE
    /\ fa_format_type = "zip"
    /\ fa_soup = <<>>
    /\ fa_k = 0
    /\ fa_used = <<>>
    /\ fa_annotation = <<>>
    /\ fa_current = <<>>
    /\ fa_pc = "idle"

faInputs == <<fa_lyrics, fa_annotations, fa_include_annotations, fa_format_type>>

\* The anchor the loop at utils.py:299 is at, in the soup as it is now.
CurrentAnchor == Anchors(fa_soup)[fa_k]

\* utils.py:296-297: the lyrics are parsed; with annotations to include the
\* loop over the anchors starts.
FaEnterLoop ==
    /\ fa_pc = "call"
    /\ fa_include_annotations /\ DOMAIN fa_annotations # {}
    /\ fa_pc' = "loop"
    /\ UNCHANGED <<xFa, faInputs, fa_soup, fa_k, fa_used, fa_annotation, fa_current>>

\* utils.py:297, 334: nothing to include, the parsed lyrics are returned.
FaReturnUnchanged ==
    /\ fa_pc = "call"
    /\ ~(fa_include_annotations /\ DOMAIN fa_annotations # {})
    /\ fa_pc' = "done"
    /\ UNCHANGED <<xFa, faInputs, fa_soup, fa_k, fa_used, fa_annotation, fa_current>>

\* utils.py:300-302: the reference id is used already; the anchor is left
\* as it is.
FaSkipUsed ==
    /\ fa_pc = "loop"
    /\ fa_k <= Len(Anchors(fa_soup))
    /\ AlreadyUsed(Href(NodeAt(fa_soup, CurrentAnchor)), fa_used)
    /\ fa_k' = fa_k + 1
    /\ UNCHANGED <<xFa, faInputs, fa_soup, fa_used, fa_annotation, fa_current, fa_pc>>

\* utils.py:304-320: the annotation block is built and parsed, and the walk
\* over its descendants starts at its first node.
FaBuildAnnotation ==
    /\ fa_pc = "loop"
    /\ fa_k <= Len(Anchors(fa_soup))
    /\ LET annotation_id == Href(NodeAt(fa_soup, CurrentAnchor)) IN
          /\ ~AlreadyUsed(annotation_id, fa_used)
          /\ annotation_id \in DOMAIN fa_annotations
          /\ fa_annotation' = AnnotationSoup(fa_annotations[annotation_id], fa_format_type)
    /\ fa_current' = <<1>>
    /\ fa_pc' = "walk"
    /\ UNCHANGED <<xFa, faInputs, fa_soup, fa_k, fa_used>>

\* utils.py:308, 314: annotations[annotation_id] raises KeyError.
FaKeyError ==
    /\ fa_pc = "loop"
    /\ fa_k <= Len(Anchors(fa_soup))
    /\ LET annotation_id == Href(NodeAt(fa_soup, CurrentAnchor)) IN
          /\ ~AlreadyUsed(annotation_id, fa_used)
          /\ annotation_id \notin DOMAIN fa_annotations
    /\ fa_pc' = "raised"
    /\ UNCHANGED <<xFa, faInputs, fa_soup, fa_k, fa_used, fa_annotation, fa_current>>

\* utils.py:320-328: a node that stays; its attributes are stripped and the
\* walk goes on to the next element.
FaWalkKeep ==
    /\ fa_pc = "walk"
    /\ fa_current # <<>>
    /\ NodeAt(fa_annotation, fa_current).name \notin {"div", "script", "iframe", "blockquote"}
    /\ fa_annotation' =
          ReplaceAt(fa_annotation, fa_current,
                    <<StripAttributes(NodeAt(fa_annotation, fa_current))>>)
    /\ fa_current' = NextElement(fa_annotation, fa_current)
    /\ UNCHANGED <<xFa, faInputs, fa_soup, fa_k, fa_used, fa_pc>>

\* utils.py:325-326: a div, script or iframe is destroyed with what it holds.
FaWalkDecompose ==
    /\ fa_pc = "walk"
    /\ fa_current # <<>>
    /\ NodeAt(fa_annotation, fa_current).name \in {"div", "script", "iframe"}
    /\ fa_annotation' = ReplaceAt(fa_annotation, fa_current, <<>>)
    /\ fa_current' = NextElementOfRemoved
    /\ UNCHANGED <<xFa, faInputs, fa_soup, fa_k, fa_used, fa_pc>>

\* utils.py:327-328: a blockquote is replaced by its children.
FaWalkUnwrap ==
    /\ fa_pc = "walk"
    /\ fa_current # <<>>
    /\ NodeAt(fa_annotation, fa_current).name = "blockquote"
    /\ fa_annotation' =
          ReplaceAt(fa_annotation, fa_current,
                    StripAttributes(NodeAt(fa_annotation, fa_current)).children)
    /\ fa_current' = NextElementOfRemoved
    /\ UNCHANGED <<xFa, faInputs, fa_soup, fa_k, fa_used, fa_pc>>

\* utils.py:330-332: the walk is over; the anchor's attributes are cleared,
\* the annotation is inserted after it and its reference id recorded.
FaInsert ==
    /\ fa_pc = "walk"
    /\ fa_current = <<>>
    /\ LET a == NodeAt(fa_soup, CurrentAnchor) IN
          /\ fa_soup' = ReplaceAt(fa_soup, CurrentAnchor,
                                  <<Element(a.name, {}, a.children)>> \o fa_annotation)
          /\ fa_used' = Append(fa_used, Href(a))
    /\ fa_annotation' = <<>>
    /\ fa_k' = fa_k + 1
    /\ fa_pc' = "loop"
    /\ UNCHANGED <<xFa, faInputs, fa_current>>

\* utils.py:299, 334: the anchors are used up and the soup is returned.
FaReturn ==
    /\ fa_pc = "loop"
    /\ fa_k > Len(Anchors(fa_soup))
    /\ fa_pc' = "done"
    /\ UNCHANGED <<xFa, faInputs, fa_soup, fa_k, fa_used, fa_annotation, fa_current>>

NextAnnot ==
    \/ FaEnterLoop \/ FaReturnUnchanged \/ FaSkipUsed \/ FaBuildAnnotation
    \/ FaKeyError \/ FaWalkKeep \/ FaWalkDecompose \/ FaWalkUnwrap
    \/ FaInsert \/ FaReturn

----------------------------------------------------------------------------
(* Preferences store: Database.user, select, insert                        *)

NumCallers == 2
MaxUserCalls == 3

ChatIds == {1, 2}

Callers == 1..NumCallers

EmptyDict == [k \in {} |-> TRUE]

\* dict.update: the keys of new take their values from new.
DictUpdate(dict, new) == new @@ dict

\* db.py:30-32, the default preferences
DefaultIncludeAnnotations == FALSE

DefaultLyricsLanguage == "English + Non-English"

DefaultMenuLanguage == "English"

\* A stored row: (chat_id, include_annotations, lyrics language, menu
\* language).
Rows(chat_id) ==
    { <<chat_id, ia, ll, "English">> :
        ia \in BOOLEAN, ll \in {"English", "English + Non-English"} }

\* The tables the store can hold when the bot starts: for every chat id one
\* row or none.
Tables ==
    UNION { { t \in [ids -> UNION { Rows(c) : c \in ids }] :
                \A c \in ids : t[c][1] = c }
            : ids \in SUBSET ChatIds }

\* db.py:62-69: the row as a dict, or the empty list fetchall() returned.
SelectResult(table, chat_id) ==
    IF chat_id \in DOMAIN table
    THEN ( "chat_id" :> table[chat_id][1]
           @@ "include_annotations" :> table[chat_id][2]
           @@ "lyrics_lang" :> table[chat_id][3]
           @@ "menu_lang" :> table[chat_id][4] )
    ELSE EmptyDict

\* db.py:33-38: the dict of defaults user() puts into user_data
DefaultUserData ==
    ( "include_annotations" :> DefaultIncludeAnnotations
      @@ "lyrics_language" :> DefaultLyricsLanguage
      @@ "menu_language" :> DefaultMenuLanguage )

\* db.py:50: the value markers of the statement as the f-string leaves
\* them.  An f-string gives braces a meaning, not percent signs: "%%s" in
\* the source is "%%s" in the query.
InsertMarkers == <<"%%s", "%%s", "%%s", "%%s">>

\* db.py:53, cursor.execute(query, values) binds values to the markers
\* "%s"; "%%" is the way to write one literal "%", so "%%s" is sent to the
\* server as the text "%s" and binds nothing.
Bound(marker) == marker = "%s"

\* The server parses the statement when every value of VALUES (...) is a
\* bound parameter; the text "%s" is a syntax error.
StatementParses(markers) == \A n \in 1..Len(markers) : Bound(markers[n])

\* db.py:46-53, the outcome of insert: the statement is rejected, or the
\* row is refused by the unique chat id, or it is stored.
InsertOutcome(table, chat_id) ==
    IF ~StatementParses(InsertMarkers) THEN "SyntaxError"
    ELSE IF chat_id \in DOMAIN table THEN "UniqueViolation"
    ELSE "stored"

InitDbVars ==
    /\ db_table \in Tables
    /\ db_user_data = [c \in ChatIds |-> EmptyDict]
    /\ db_pc = [p \in Callers |-> "ready"]
    /\ db_chat_id = [p \in Callers |-> 0]
    /\ db_res = [p \in Callers |-> EmptyDict]
    /\ db_error = [p \in Callers |-> ""]
    /\ db_calls = 0

IdleDb ==
    /\ db_table = EmptyDict
    /\ db_user_data = EmptyDict
    /\ db_pc = EmptyDict
    /\ db_chat_id = EmptyDict
    /\ db_res = EmptyDict
    /\ db_error = EmptyDict
    /\ db_calls = 0

\* A handler calls user(chat_id, user_data) with the user_data of the chat;
\* a caller whose call is over may call again.
DbCall(p, chat_id) ==
    /\ db_pc[p] \in {"ready", "returned", "raised"}
    /\ db_calls < MaxUserCalls
    /\ db_calls' = db_calls + 1
    /\ db_pc' = [db_pc EXCEPT ![p] = "select"]
    /\ db_chat_id' = [db_chat_id EXCEPT ![p] = chat_id]
    /\ db_res' = [db_res EXCEPT ![p] = EmptyDict]
    /\ db_error' = [db_error EXCEPT ![p] = ""]
    /\ UNCHANGED <<xDb, db_table, db_user_data>>

\* db.py:25, 55-69: select on a connection of its own
DbSelect(p) ==
    /\ db_pc[p] = "select"
    /\ db_res' = [db_res EXCEPT ![p] = SelectResult(db_table, db_chat_id[p])]
    /\ db_pc' = [db_pc EXCEPT ![p] = "selected"]
    /\ UNCHANGED <<xDb, db_table, db_user_data, db_chat_id, db_error, db_calls>>

\* db.py:26-27: the row was found and goes into user_data.
DbUpdateFromRow(p) ==
    /\ db_pc[p] = "selected"
    /\ DOMAIN db_res[p] # {}
    /\ db_user_data' = [db_user_data EXCEPT ![db_chat_id[p]] = DictUpdate(@, db_res[p])]
    /\ db_pc' = [db_pc EXCEPT ![p] = "returned"]
    /\ UNCHANGED <<xDb, db_table, db_chat_id, db_res, db_error, db_calls>>

\* db.py:28-38: no row; the defaults go into user_data.
DbUpdateFromDefaults(p) ==
    /\ db_pc[p] = "selected"
    /\ DOMAIN db_res[p] = {}
    /\ db_user_data' = [db_user_data EXCEPT ![db_chat_id[p]] = DictUpdate(@, DefaultUserData)]
    /\ db_pc' = [db_pc EXCEPT ![p] = "insert"]
    /\ UNCHANGED <<xDb, db_table, db_chat_id, db_res, db_error, db_calls>>

\* db.py:39-44, 46-53: insert on a connection of its own; an error of the
\* statement propagates out of user().
DbInsert(p) ==
    /\ db_pc[p] = "insert"
    /\ LET outcome == InsertOutcome(db_table, db_chat_id[p]) IN
          IF outcome = "stored"
          THEN /\ db_table' = ( db_chat_id[p] :>
                                  <<db_chat_id[p], DefaultIncludeAnnotations,
                                    DefaultLyricsLanguage, DefaultMenuLanguage>> )
                              @@ db_table
               /\ db_pc' = [db_pc EXCEPT ![p] = "returned"]
               /\ UNCHANGED db_error
          ELSE /\ db_error' = [db_error EXCEPT ![p] = outcome]
               /\ db_pc' = [db_pc EXCEPT ![p] = "raised"]
               /\ UNCHANGED db_table
    /\ UNCHANGED <<xDb, db_user_data, db_chat_id, db_res, db_calls>>

NextDb ==
    \E p \in Callers :
        \/ \E chat_id \in ChatIds : DbCall(p, chat_id)
        \/ DbSelect(p)
        \/ DbUpdateFromRow(p)
        \/ DbUpdateFromDefaults(p)
        \/ DbInsert(p)

----------------------------------------------------------------------------
(* Specifications                                                          *)

InitMatch ==
    /\ InitMatchVars /\ IdleTags /\ IdleNewlines /\ IdleLang
    /\ IdleMeta /\ IdleAnnot /\ IdleDb

InitTags ==
    /\ IdleMatch /\ InitTagsVars /\ IdleNewlines /\ IdleLang
    /\ IdleMeta /\ IdleAnnot /\ IdleDb

InitNewlines ==
    /\ IdleMatch /\ IdleTags /\ InitNewlinesVars /\ IdleLang
    /\ IdleMeta /\ IdleAnnot /\ IdleDb

InitLang ==
    /\ IdleMatch /\ IdleTags /\ IdleNewlines /\ InitLangVars
    /\ IdleMeta /\ IdleAnnot /\ IdleDb

InitMeta ==
    /\ IdleMatch /\ IdleTags /\ IdleNewlines /\ IdleLang
    /\ InitMetaVars /\ IdleAnnot /\ IdleDb

InitAnnot ==
    /\ IdleMatch /\ IdleTags /\ IdleNewlines /\ IdleLang
    /\ IdleMeta /\ InitAnnotVars /\ IdleDb

InitDb ==
    /\ IdleMatch /\ IdleTags /\ IdleNewlines /\ IdleLang
    /\ IdleMeta /\ IdleAnnot /\ InitDbVars

SpecMatch == InitMatch /\ [][NextMatch]_vars

SpecTags == InitTags /\ [][NextTags]_vars

SpecNewlines == InitNewlines /\ [][NextNewlines]_vars

SpecLang == InitLang /\ [][NextLang]_vars

SpecMeta == InitMeta /\ [][NextMeta]_vars

SpecAnnot == InitAnnot /\ [][NextAnnot]_vars

SpecDb == InitDb /\ [][NextDb]_vars

\* The filter is one sequential loop: a step that can be taken is taken.
SpecTagsFair == SpecTags /\ WF_vars(NextTags)

----------------------------------------------------------------------------
(* C1 *)

\* The number of lines of a returned value (a str of n lines holds n - 1
\* newlines; None has no lines).
RECURSIVE CountChar(_, _)
CountChar(s, c) ==
    IF s = <<>> THEN 0
    ELSE (IF Head(s) = c THEN 1 ELSE 0) + CountChar(Tail(s), c)

ResultLineCount(r) == IF r.isNone THEN 0 ELSE CountChar(r.val, "\n") + 1

\* C1 as stated: find_matching_lyrics returns None whenever fewer
\* full-lyrics lines matched than there are candidates, so a non-null result
\* has exactly len(lines) lines and a partial match is discarded.
C1_PartialMatchDiscarded ==
    fm_pc = "done" =>
        /\ (~fm_result.isNone => ResultLineCount(fm_result) = Len(fm_lines))
        /\ (Len(fm_matching_lyrics) < Len(fm_lines) => fm_result.isNone)

\* C1 as amended: find_matching_lyrics returns None exactly when no
\* full-lyrics line matched; a non-null result is the newline-join of the
\* matched lines, at least one and at most len(lines) of them, so a partial
\* match is returned, not discarded.
C1_NoneOnlyWhenNothingMatched ==
    fm_pc = "done" =>
        /\ (fm_result.isNone <=> fm_matching_lyrics = <<>>)
        /\ (~fm_result.isNone =>
               /\ Split(fm_result.val, "\n") = fm_matching_lyrics
               /\ ResultLineCount(fm_result) >= 1
               /\ ResultLineCount(fm_result) <= Len(fm_lines))

\* A partial match is returned: one of two candidates matched, and the
\* result is that one line.
C1_PartialMatchReturned ==
    /\ fm_pc = "done"
    /\ Len(fm_lines) = 2
    /\ Len(fm_matching_lyrics) = 1
    /\ ~fm_result.isNone
    /\ ResultLineCount(fm_result) = 1

----------------------------------------------------------------------------
(* C2, C9 *)

DisallowedCount(soup) == CountNotNamed(soup, tf_supported)

\* C2 as stated: after remove_unsupported_tags returns, no element at any
\* depth of the tree has a tag name outside the allow-list, and the text of
\* the unwrapped elements is still there, in document order.
C2_NoUnsupportedTagAtAnyDepth ==
    tf_pc = "done" =>
        /\ DisallowedCount(tf_soup) = 0
        /\ GetText(tf_soup) = GetText(tf_input)

\* C9: the Tag Filter loop terminates: every step that restarts the scan
\* strictly reduces the number of disallowed elements in the tree, and a
\* scan that finds no disallowed element, after which the soup is returned,
\* is eventually reached.
C9_TagFilterTerminates ==
    /\ [][TfRemove => DisallowedCount(tf_soup') < DisallowedCount(tf_soup)]_vars
    /\ <>(tf_pc = "done")

\* The loop has returned after restarting at least twice.
C9_ReturnedAfterRestarts ==
    /\ tf_pc = "done"
    /\ DisallowedCount(tf_input) - DisallowedCount(tf_soup) >= 2
    /\ Len(tf_soup) > 0

----------------------------------------------------------------------------
(* C5 *)

\* C5 as stated: format_language is idempotent; applied a second time with
\* the same preference to the result of the first application, it yields the
\* text of the first application.
C5_FormatLanguageIdempotent ==
    fl_pc = "twice" => Serialize(fl_twice) = Serialize(fl_once)

----------------------------------------------------------------------------
(* C7 *)

\* The text with its maximal runs of markers rewritten, from index i (the
\* start of a run or a character outside the runs): a run of two or more
\* markers that no "[" follows becomes one newline; before a "[", a run is
\* kept when keepAll holds or when it has at most two markers, and else
\* becomes one newline and its last marker.
RECURSIVE RewriteRuns(_, _, _)
RewriteRuns(s, i, keepAll) ==
    IF i > Len(s) THEN <<>>
    ELSE IF ~IsMarker(s[i]) THEN <<s[i]>> \o RewriteRuns(s, i + 1, keepAll)
    ELSE LET k == MarkerRun(s, i)
             run == SubSeq(s, i, i + k - 1)
             beforeBracket == i + k <= Len(s) /\ s[i + k] = LB
         IN (IF k < 2 THEN run
             ELSE IF ~beforeBracket THEN <<NL>>
             ELSE IF keepAll \/ k = 2 THEN run
             ELSE <<NL, s[i + k - 1]>>)
            \o RewriteRuns(s, i + k, keepAll)

\* C7 as stated: remove_extra_newlines replaces every maximal run of two or
\* more markers by one newline when no "[" follows the run, and leaves a run
\* that a "[" follows as it was, whatever its length.
C7_RunBeforeBracketKept ==
    rn_pc = "done" => rn_out = RewriteRuns(rn_s, 1, TRUE)

\* C7 as amended: remove_extra_newlines replaces every maximal run of two or
\* more markers by one newline when no "[" follows the run; it leaves a run
\* of exactly two markers that a "[" follows as it was, and of a longer run
\* that a "[" follows it keeps the last marker and replaces the markers
\* before it by one newline.
C7_RunBeforeBracketCutToTwo ==
    rn_pc = "done" => rn_out = RewriteRuns(rn_s, 1, FALSE)

\* A run of three markers before a "[" has been cut to two, and a run of two
\* before a "[" has been kept.
C7_LongRunBeforeBracketCut ==
    /\ rn_pc = "done"
    /\ rn_s = <<"a", NL, NL, NL, LB>>
    /\ rn_out = <<"a", NL, NL, LB>>

----------------------------------------------------------------------------
(* C6 *)

\* C6 as stated: on a translation stub (primary artist name starting with
\* "Genius", no featured artists, title "<artist> - <title> (<non-Latin
\* annotation>)") get_song_metadata strips the annotation, whatever its
\* length, and returns (<title>, [<artist> split on " & "], []).
C6_TranslationAnnotationStripped ==
    \A a \in TitleArtists, t \in { <<"T">>, <<"T", " ", "T">> },
       n \in 1..MaxAnnotationLen :
        ( /\ gm_pc # "call"
          /\ StartsWith(gm_song.primary_artist.name, Genius)
          /\ gm_song.featured_artists = <<>>
          /\ gm_song.title = a \o <<" ", "-", " ">> \o t
                               \o <<" ", "(">> \o Persian(n) \o <<")">> )
        => gm_result = Returned(<<t, SplitStr(a, Ampersand), <<>>>>)

----------------------------------------------------------------------------
(* C3, C4 *)

\* The call ran with annotations to include and has returned.
Inlined ==
    /\ fa_pc = "done"
    /\ fa_include_annotations
    /\ DOMAIN fa_annotations # {}

\* The k-th anchor of the lyrics as it was passed in.
InputAnchor(k) == NodeAt(fa_lyrics, Anchors(fa_lyrics)[k])

\* The lyrics hold exactly two anchors, and they share their reference id.
TwoAnchorsOneId ==
    /\ Len(Anchors(fa_lyrics)) = 2
    /\ Href(InputAnchor(1)) = Href(InputAnchor(2))

FollowedByAnnotation(k) ==
    LET next == NextSibling(fa_soup, Anchors(fa_soup)[k]) IN
    next # <<>> /\ next[1].name = "annotation"

\* C3 as stated: with two anchors of one reference id, exactly one
\* <annotation> block is inserted, as the immediate next sibling of the
\* first anchor, and both anchors end with no attributes.
C3_BothAnchorsCleared ==
    (Inlined /\ TwoAnchorsOneId) =>
        /\ CountNamed(fa_soup, {"annotation"}) = 1
        /\ FollowedByAnnotation(1)
        /\ NodeAt(fa_soup, Anchors(fa_soup)[1]).attrs = {}
        /\ NodeAt(fa_soup, Anchors(fa_soup)[2]).attrs = {}

\* C3 as amended: when format_annotations returns after running with
\* include_annotations true and a non-empty annotation map on lyrics holding
\* two anchors with the same reference id, exactly one <annotation> block is
\* inserted, as the immediate next sibling of the first anchor; the first
\* anchor ends with no attributes and the second keeps the attributes it
\* had, its reference id among them.
C3_FirstAnchorClearedSecondKept ==
    (Inlined /\ TwoAnchorsOneId) =>
        /\ CountNamed(fa_soup, {"annotation"}) = 1
        /\ FollowedByAnnotation(1)
        /\ ~FollowedByAnnotation(2)
        /\ NodeAt(fa_soup, Anchors(fa_soup)[1]).attrs = {}
        /\ NodeAt(fa_soup, Anchors(fa_soup)[2]).attrs = InputAnchor(2).attrs
        /\ InputAnchor(2).attrs # {}

\* Two anchors of one reference id have been processed, the second of them
\* carrying a further attribute.
C3_SharedIdInlined ==
    /\ Inlined
    /\ TwoAnchorsOneId
    /\ <<"class", "r">> \in InputAnchor(2).attrs
    /\ CountNamed(fa_soup, {"annotation"}) = 1

\* C4 as stated: whatever div, script, iframe and blockquote elements the
\* annotation body holds, the inserted <annotation> block holds no div,
\* script or iframe and no blockquote (each replaced by its children): the
\* sanitizing walk is not cut short by its own removals.
C4_AnnotationSanitized ==
    Inlined => CountNamed(fa_soup, {"div", "script", "iframe", "blockquote"}) = 0

----------------------------------------------------------------------------
(* C8, C10 *)

\* The call of caller p is over: user() has returned or has raised.
CallOver(p) == db_pc[p] \in {"returned", "raised"}

\* The call of caller p found no row: a first contact.
FirstContact(p) == CallOver(p) /\ DOMAIN db_res[p] = {}

\* C8 as stated: when two user() calls for one identifier with no row both
\* find no row and both go on to insert, the first insert stores the row and
\* the second hits a duplicate-key failure on the unique identifier.
C8_SecondInsertHitsDuplicateKey ==
    \A p, q \in Callers :
        ( /\ p # q
          /\ db_chat_id[p] = db_chat_id[q]
          /\ FirstContact(p) /\ FirstContact(q) )
        => \/ db_pc[p] = "returned" /\ db_error[q] = "UniqueViolation"
           \/ db_pc[q] = "returned" /\ db_error[p] = "UniqueViolation"

\* zip_album.py:14-15, the keys create_zip reads
ArchiveKeys == {"lyrics_lang", "include_annotations"}

\* C10 as stated: once user(chat_id, user_data) is over it has returned, and
\* user_data holds the preferences under the same keys, those the archive
\* producer reads, whether the row was just created with the defaults or was
\* read from the store, and the values are those of the stored row.
C10_UserDataHoldsStoredRow ==
    \A p \in Callers :
        CallOver(p) =>
            LET c == db_chat_id[p]
                user_data == db_user_data[c]
            IN /\ db_pc[p] = "returned"
               /\ c \in DOMAIN db_table
               /\ ArchiveKeys \cup {"menu_lang"} \subseteq DOMAIN user_data
               /\ user_data["include_annotations"] = db_table[c][2]
               /\ user_data["lyrics_lang"] = db_table[c][3]
               /\ user_data["menu_lang"] = db_table[c][4]

----------------------------------------------------------------------------
(* C11 *)

\* The number of full-lyrics lines the outer loop has gone through: while
\* the scan runs fm_i is the line to come, afterwards the last line read.
ScannedLines ==
    IF fm_pc = "scan" THEN fm_i - 1
    ELSE IF fm_pc \in {"return", "done"} THEN fm_i
    ELSE 0

\* matching holds lines of the first n full-lyrics lines, in their order,
\* each full-lyrics line taken at most once.
IsOrderedSelection(matching, n) ==
    \E idx \in [1..Len(matching) -> 1..n] :
        /\ \A j, k \in 1..Len(matching) : j < k => idx[j] < idx[k]
        /\ \A k \in 1..Len(matching) : matching[k] = LyricsLines[idx[k]]

\* C11: in find_matching_lyrics, at every step of the scan the accumulated
\* result is an order-preserving subsequence of the full-lyrics lines with
\* each full-lyrics line appended at most once, and it never holds more lines
\* than there are candidates; a step appends at most the line it reads and
\* moves on to the next line, the scan is over once the two counts are equal,
\* and the candidates are left as they were, none removed after a match.
C11_OrderedSelectionAtMostCandidates ==
    /\ [] ( /\ IsOrderedSelection(fm_matching_lyrics, ScannedLines)
            /\ Len(fm_matching_lyrics) <= Len(fm_lines) )
    /\ [][ /\ fm_lines' = fm_lines
           /\ \/ fm_matching_lyrics' = fm_matching_lyrics
              \/ /\ fm_pc = "scan"
                 /\ fm_matching_lyrics'
                      = Append(fm_matching_lyrics, LyricsLines[fm_i])
           /\ (fm_pc = "scan" => fm_i' = fm_i + 1 \/ fm_pc' # "scan")
           /\ (Len(fm_matching_lyrics') = Len(fm_lines') => fm_pc' # "scan")
         ]_vars

\* One candidate accounts for both result lines and the other for none: two
\* candidates, two accumulated lines, the first candidate matches both and
\* the second matches neither.
C11_OneCandidateMatchedTwice ==
    /\ fm_pc = "done"
    /\ Len(fm_lines) = 2
    /\ Len(fm_matching_lyrics) = 2
    /\ \A k \in 1..2 :
          /\ LineMatches(fm_lines[1], fm_matching_lyrics[k])
          /\ ~LineMatches(fm_lines[2], fm_matching_lyrics[k])

====
